---------------------------- MODULE Spec2Model ----------------------------
(***************************************************************************)
(* Model of the health-predictor backend (labels.py, features.py,          *)
(* models.py, confidence.py, advice.py, pipeline.py).                      *)
(*                                                                         *)
(* A pandas cell is a record [ok, num, den]: ok = FALSE is NaN / None,     *)
(* otherwise the cell holds the exact rational num/den in lowest terms.    *)
(* All inputs are integers or halves, so the float arithmetic of the       *)
(* source is exact on them and the rational model agrees with it.          *)
(* Sequences are 1-based: row t of the model is pandas index t-1.          *)
(***************************************************************************)
EXTENDS Integers, Sequences, FiniteSets, TLC

VARIABLES pc, df, dfAlt, labels, features, featuresAlt, call, locals, result,
          db, batch

vars == <<pc, df, dfAlt, labels, features, featuresAlt, call, locals, result,
          db, batch>>

-----------------------------------------------------------------------------
(* Cells and exact arithmetic                                              *)

Abs(x) == IF x < 0 THEN -x ELSE x

Max2(a, b) == IF a >= b THEN a ELSE b

Min2(a, b) == IF a <= b THEN a ELSE b

RECURSIVE GCD(_, _)
GCD(a, b) == IF b = 0 THEN a ELSE GCD(b, a % b)

NaN == [ok |-> FALSE, num |-> 0, den |-> 1]

Frac(n, d) ==
    LET g == GCD(Abs(n), d)
    IN  [ok |-> TRUE, num |-> n \div g, den |-> d \div g]

Val(n) == [ok |-> TRUE, num |-> n, den |-> 1]

IsNa(x) == ~x.ok

NotNa(x) == x.ok

\* a - b on cells; NaN if either operand is NaN
Sub(a, b) ==
    IF a.ok /\ b.ok
    THEN Frac(a.num * b.den - b.num * a.den, a.den * b.den)
    ELSE NaN

Add(a, b) ==
    IF a.ok /\ b.ok
    THEN Frac(a.num * b.den + b.num * a.den, a.den * b.den)
    ELSE NaN

\* a <= b on cells; any comparison with NaN is False
Le(a, b) == a.ok /\ b.ok /\ a.num * b.den <= b.num * a.den

\* sum of the non-NaN cells of s[lo..hi], by halves of the interval
RECURSIVE SumObs(_, _, _)
SumObs(s, lo, hi) ==
    IF lo > hi THEN Val(0)
    ELSE IF lo = hi THEN (IF s[lo].ok THEN s[lo] ELSE Val(0))
    ELSE Add(SumObs(s, lo, (lo + hi) \div 2), SumObs(s, (lo + hi) \div 2 + 1, hi))

\* Series.shift(k)
Shift(s, k) == [i \in 1..Len(s) |-> IF i - k >= 1 THEN s[i - k] ELSE NaN]

\* Series.rolling(window, min_periods).mean(): the window is the last
\* `window` rows ending at i; the mean is over its non-NaN observations and
\* is NaN when there are fewer than min_periods of them.
RollingMean(s, window, min_periods) ==
    [i \in 1..Len(s) |->
        LET lo  == Max2(1, i - window + 1)
            cnt == Cardinality({j \in lo..i : s[j].ok})
            tot == SumObs(s, lo, i)
        IN  IF cnt >= min_periods /\ cnt > 0
            THEN Frac(tot.num, tot.den * cnt)
            ELSE NaN]

\* Series.fillna(other), other a series or a scalar cell
FillnaSeries(s, o) == [i \in 1..Len(s) |-> IF s[i].ok THEN s[i] ELSE o[i]]

FillnaScalar(s, c) == [i \in 1..Len(s) |-> IF s[i].ok THEN s[i] ELSE c]

\* a DataFrame or Series held in memory: its rows as a tuple of values
Frame(rows) == SubSeq(rows, 1, Len(rows))

\* df.sort_values("date_key").reset_index(drop=True); date keys are unique
SortRows(d) ==
    Frame([k \in 1..Len(d) |->
        d[CHOOSE i \in 1..Len(d) :
            Cardinality({j \in 1..Len(d) : d[j].date_key < d[i].date_key}) = k - 1]])

Column(d, f) == [i \in 1..Len(d) |-> d[i][f]]

-----------------------------------------------------------------------------
(* labels.py                                                               *)

LABEL_WINDOW == 14

HORIZON_3D == 3

\* np.where(ma.notna() & (mood <= ma - 1), 1, np.where(ma.notna(), 0, nan))
YTodayStrict(mood, ma) ==
    IF ma.ok /\ Le(mood, Sub(ma, Val(1))) /\ mood # Sub(ma, Val(1)) THEN Val(1)
    ELSE IF ma.ok THEN Val(0) ELSE NaN

YToday(mood, ma) ==
    IF ma.ok /\ Le(mood, Sub(ma, Val(1))) THEN Val(1)
    ELSE IF ma.ok THEN Val(0) ELSE NaN

\* the loop over range(len(df) - 3): rows whose own y_today is NaN and rows
\* with a NaN among the next three y_today are skipped and keep NaN
Y3dNoOwnCheck(y, i) ==
    IF i <= Len(y) - HORIZON_3D
       /\ \A j \in (i + 1)..(i + HORIZON_3D) : y[j].ok
    THEN IF \E j \in (i + 1)..(i + HORIZON_3D) : y[j].num >= 1
         THEN Val(1) ELSE Val(0)
    ELSE NaN

Y3d(y, i) ==
    IF i <= Len(y) - HORIZON_3D
       /\ y[i].ok
       /\ \A j \in (i + 1)..(i + HORIZON_3D) : y[j].ok
    THEN IF \E j \in (i + 1)..(i + HORIZON_3D) : y[j].num >= 1
         THEN Val(1) ELSE Val(0)
    ELSE NaN

generate_labels(d) ==
    LET s    == SortRows(d)
        mood == Column(s, "moodScore")
        ma   == RollingMean(mood, LABEL_WINDOW, LABEL_WINDOW)
        yt   == [i \in 1..Len(s) |-> YToday(mood[i], ma[i])]
    IN  [i \in 1..Len(s) |->
            [date_key |-> s[i].date_key,
             y_today  |-> yt[i],
             y_3d     |-> Y3d(yt, i)]]


-----------------------------------------------------------------------------
(* features.py                                                             *)

FILL_WINDOW == 7

MA3_WINDOW == 3

MA7_WINDOW == 7

MA14_WINDOW == 14

MA14_MIN_PERIODS == 7

\* pd.to_datetime(date_key).dt.dayofweek, 0 = Monday; date key d stands for
\* the calendar day 2026-01-01 + (d - 1), and 2026-01-01 is a Thursday
DayOfWeek(d) == (d + 2) % 7

IsWeekend(d) == IF DayOfWeek(d) \in {5, 6} THEN 1 ELSE 0

\* _fill_missing: series.fillna(rolling mean, min_periods=1).fillna(0)
FillMissing(series, window) ==
    FillnaScalar(FillnaSeries(series, RollingMean(series, window, 1)), Val(0))

\* series.isna().astype(int)
IsnaIntAfterFill(series) ==
    [i \in 1..Len(series) |->
        IF FillMissing(series, FILL_WINDOW)[i].ok THEN 0 ELSE 1]

IsnaInt(series) == [i \in 1..Len(series) |-> IF series[i].ok THEN 0 ELSE 1]

\* df["moodScore"].shift(1), the only mood series the features read
MoodLagSameDay(mood) == mood

MoodLag(mood) == Shift(mood, 1)

\* df["steps"].shift(1)
StepsLag(steps) == Shift(steps, 1)

\* df["stress"].shift(1)
StressLag(stress) == Shift(stress, 1)

build_features(d) ==
    LET s           == SortRows(d)
        mood        == Column(s, "moodScore")
        sleep       == Column(s, "sleep_hours")
        steps       == Column(s, "steps")
        stress      == Column(s, "stress")
        mood_lag1   == MoodLag(mood)
        mood_ma3    == RollingMean(MoodLag(mood), MA3_WINDOW, 1)
        mood_ma7    == RollingMean(MoodLag(mood), MA7_WINDOW, 1)
        mood_ma14   == RollingMean(MoodLag(mood), MA14_WINDOW, MA14_MIN_PERIODS)
        lag2        == Shift(mood, 2)
        sleep_fill  == FillMissing(sleep, FILL_WINDOW)
        sleep_mean  == RollingMean(sleep, FILL_WINDOW, 1)
        steps_lag1  == StepsLag(steps)
        steps_fill  == FillMissing(steps_lag1, FILL_WINDOW)
        steps_mean  == RollingMean(StepsLag(steps), FILL_WINDOW, 1)
        stress_lag1 == StressLag(stress)
        stress_fill == FillMissing(stress_lag1, FILL_WINDOW)
    IN  [i \in 1..Len(s) |->
            [date_key           |-> s[i].date_key,
             day_of_week        |-> Val(DayOfWeek(s[i].date_key)),
             is_weekend         |-> Val(IsWeekend(s[i].date_key)),
             mood_lag1          |-> mood_lag1[i],
             mood_ma3           |-> mood_ma3[i],
             mood_ma7           |-> mood_ma7[i],
             mood_delta1        |-> Sub(mood_lag1[i], lag2[i]),
             mood_dev14         |-> Sub(mood_lag1[i], mood_ma14[i]),
             sleep_hours_filled |-> sleep_fill[i],
             sleep_missing      |-> Val(IsnaInt(sleep)[i]),
             sleep_dev          |-> Sub(sleep_fill[i], sleep_mean[i]),
             steps_filled       |-> steps_fill[i],
             steps_missing      |-> Val(IsnaInt(steps_lag1)[i]),
             steps_dev          |-> Sub(steps_fill[i], steps_mean[i]),
             stress_filled      |-> stress_fill[i],
             stress_missing     |-> Val(IsnaInt(stress_lag1)[i])]]

\* get_feature_columns()
FeatureColumns ==
    <<"day_of_week", "is_weekend", "mood_lag1", "mood_ma3", "mood_ma7",
      "mood_delta1", "mood_dev14", "sleep_hours_filled", "sleep_missing",
      "sleep_dev", "steps_filled", "steps_missing", "steps_dev",
      "stress_filled", "stress_missing">>


-----------------------------------------------------------------------------
(* config.py (thresholds) and confidence.py                                *)

MIN_DAYS_TODAY == 14

VALIDATION_DAYS == 14

LGBM_MIN_DAYS == 60

LGBM_MIN_UNHEALTHY == 10

CONFIDENCE_MEDIUM_DAYS == 30

CONFIDENCE_MEDIUM_UNHEALTHY == 5

CONFIDENCE_HIGH_DAYS == 60

CONFIDENCE_HIGH_UNHEALTHY == 10

\* MISSING_RATE_THRESHOLD = 0.30
MISSING_RATE_THRESHOLD == Frac(30, 100)

\* the base tier of calculate_confidence
BaseLevel(days_collected, unhealthy_count) ==
    IF days_collected >= CONFIDENCE_HIGH_DAYS
       /\ unhealthy_count >= CONFIDENCE_HIGH_UNHEALTHY
    THEN "high"
    ELSE IF days_collected >= CONFIDENCE_MEDIUM_DAYS
            /\ unhealthy_count >= CONFIDENCE_MEDIUM_UNHEALTHY
         THEN "medium"
         ELSE "low"

\* the downgrade on a high recent missing rate
DowngradeStrict(level, recent_missing_rate) ==
    IF Le(MISSING_RATE_THRESHOLD, recent_missing_rate)
       /\ recent_missing_rate # MISSING_RATE_THRESHOLD
    THEN IF level = "high" THEN "medium"
         ELSE IF level = "medium" THEN "low" ELSE level
    ELSE level

Downgrade(level, recent_missing_rate) ==
    IF Le(MISSING_RATE_THRESHOLD, recent_missing_rate)
    THEN IF level = "high" THEN "medium"
         ELSE IF level = "medium" THEN "low" ELSE level
    ELSE level

calculate_confidence(days_collected, unhealthy_count, recent_missing_rate) ==
    Downgrade(BaseLevel(days_collected, unhealthy_count), recent_missing_rate)

-----------------------------------------------------------------------------
(* models.py.  A table row is [target, complete]: the target label cell    *)
(* and whether all fifteen feature cells of the row are non-null.  What    *)
(* scikit-learn, LightGBM and shap return is not computed here: each call  *)
(* of train_and_predict takes their outcomes as arguments (lr, lgb, ...).  *)

LR_STRONG_BELOW == 60

LR_MODERATE_BELOW == 150

LGB_SHALLOW_BELOW == 150

\* df.dropna(subset=[target_col] + feature_cols)
ValidRowsTargetOnly(table) == SelectSeq(table, LAMBDA r : r.target.ok)

ValidRows(table) == SelectSeq(table, LAMBDA r : r.target.ok /\ r.complete)

\* len(valid) < config.MIN_DAYS_TODAY
TooFewRowsOffByOne(valid) == Len(valid) < MIN_DAYS_TODAY - 1

TooFewRows(valid) == Len(valid) < MIN_DAYS_TODAY

\* valid[target_col].values.astype(int)
TargetVector(valid) == [i \in 1..Len(valid) |-> valid[i].target.num]

\* y[lo] + ... + y[hi], by halves of the interval
RECURSIVE SumRange(_, _, _)
SumRange(y, lo, hi) ==
    IF lo > hi THEN 0
    ELSE IF lo = hi THEN y[lo]
    ELSE SumRange(y, lo, (lo + hi) \div 2) + SumRange(y, (lo + hi) \div 2 + 1, hi)

\* y.sum()
SumSeq(y) == SumRange(y, 1, Len(y))

Classes(y) == {y[i] : i \in 1..Len(y)}

\* n_test = max(min(VALIDATION_DAYS, len(valid) // 3), 1)
NTestUncapped(n) == Max2(n \div 3, 1)

NTest(n) == Max2(Min2(VALIDATION_DAYS, n \div 3), 1)

\* y[:-n_test], y[-n_test:], and the fallback to all rows without a test set
\* when the training part has no positive label
Split(y) ==
    LET n_test == NTest(Len(y))
        tr     == SubSeq(y, 1, Len(y) - n_test)
        te     == SubSeq(y, Len(y) - n_test + 1, Len(y))
    IN  IF SumSeq(tr) = 0
        THEN [n_test |-> n_test, y_train |-> y, has_test |-> FALSE, y_test |-> <<>>]
        ELSE [n_test |-> n_test, y_train |-> tr, has_test |-> TRUE, y_test |-> te]

\* the regularisation strength C of the logistic candidate
LrC(days_collected) ==
    IF days_collected < LR_STRONG_BELOW THEN Frac(1, 10)
    ELSE IF days_collected < LR_MODERATE_BELOW THEN Frac(5, 10)
    ELSE Val(1)

\* max_depth of the tree candidate (num_leaves is 8 / 31 with it)
LgbMaxDepth(days_collected) == IF days_collected < LGB_SHALLOW_BELOW THEN 3 ELSE 5

\* LogisticRegression.fit raises ValueError on labels of a single class
LrFitRaises(y_train) == Cardinality(Classes(y_train)) < 2

\* outcomes of a fit: the fitted model, and whether the metric functions
\* accept its validation scores or raise ValueError
FitOutcomes ==
    {[model |-> "weak", scoring |-> "ok"],
     [model |-> "strong", scoring |-> "ok"],
     [model |-> "weak", scoring |-> "ValueError"]}

\* outcomes of the tree candidate's block up to its predictions
LgbOutcomes ==
    {[fit |-> "raises", model |-> "weak", scoring |-> "ok"]}
    \cup {[fit |-> "ok", model |-> o.model, scoring |-> o.scoring] : o \in FitOutcomes}

AttrOutcomes == {"ok", "raises"}

\* predict_proba(X[-1:])[:, 1][0] of a fitted model
PredictLast(kind, model) ==
    IF kind = "logistic"
    THEN (IF model = "weak" THEN Frac(3, 10) ELSE Frac(6, 10))
    ELSE (IF model = "weak" THEN Frac(4, 10) ELSE Frac(7, 10))

\* roc_auc_score / average_precision_score of the validation scores; NaN
\* stands for the ValueError they raise
RocAucScore(o) ==
    IF o.scoring = "ValueError" THEN NaN
    ELSE IF o.model = "weak" THEN Frac(5, 10) ELSE Frac(9, 10)

AveragePrecisionScore(o) ==
    IF o.scoring = "ValueError" THEN NaN
    ELSE IF o.model = "weak" THEN Frac(4, 10) ELSE Frac(8, 10)

\* _safe_auc: None without a test set, with fewer than 2 test rows, with a
\* single class among them, or when roc_auc_score raises ValueError
SafeAuc(has_test, y_test, o) ==
    IF ~has_test \/ Len(y_test) < 2 THEN NaN
    ELSE IF Cardinality(Classes(y_test)) < 2 THEN NaN
    ELSE RocAucScore(o)

\* _safe_pr_auc
SafePrAuc(has_test, y_test, o) ==
    IF ~has_test \/ Len(y_test) < 2 THEN NaN
    ELSE IF Cardinality(Classes(y_test)) < 2 THEN NaN
    ELSE AveragePrecisionScore(o)

\* _calc_lr_contributions / _calc_lgb_contributions: top 3, or [] when the
\* computation raises
CalcLrContributions(attr) == IF attr = "ok" THEN "logistic_top3" ELSE "empty"

CalcLgbContributionsStale(attr) ==
    IF attr = "ok" THEN "shap_top3" ELSE "logistic_top3"

CalcLgbContributions(attr) == IF attr = "ok" THEN "shap_top3" ELSE "empty"

\* the comparison of the two candidates (lines 129-154)
LgbSelectedOnTie(lgb_auc, lr_auc) ==
    IF lgb_auc.ok /\ lr_auc.ok THEN Le(lr_auc, lgb_auc) ELSE lgb_auc.ok

LgbSelected(lgb_auc, lr_auc) ==
    IF lgb_auc.ok /\ lr_auc.ok THEN ~Le(lgb_auc, lr_auc) ELSE lgb_auc.ok

\* whether the tree candidate is attempted (lines 98-101)
LgbEnabled(days_collected, unhealthy_count) ==
    days_collected >= LGBM_MIN_DAYS /\ unhealthy_count >= LGBM_MIN_UNHEALTHY

Returned(probability, model_type, auc, pr_auc, contributions) ==
    [kind |-> "returned", probability |-> probability, model_type |-> model_type,
     auc |-> auc, pr_auc |-> pr_auc, contributions |-> contributions]

Raised ==
    [kind |-> "raised", probability |-> NaN, model_type |-> "none",
     auc |-> NaN, pr_auc |-> NaN, contributions |-> "absent"]

\* the locals of a call that returned before the split
EarlyLocals(n_valid, positives) ==
    [fn |-> "train_and_predict", n_valid |-> n_valid, positives |-> positives,
     n_test |-> 0, y_train |-> <<>>, has_test |-> FALSE, y_test |-> <<>>,
     lr_fit |-> "not_attempted", lr_C |-> NaN, lr_prob |-> NaN, lr_auc |-> NaN,
     lr_pr_auc |-> NaN, lr_contributions |-> "absent", lgb_fit |-> "not_attempted", lgb_max_depth |-> 0,
     lgb_prob |-> NaN, lgb_auc |-> NaN, lgb_pr_auc |-> NaN,
     lgb_train |-> <<>>, lgb_attr |-> "not_attempted"]

\* train_and_predict; lr, lr_attr, lgb, lgb_attr are the outcomes of the
\* library calls it makes.  The value is [locals, result].
train_and_predict(table, days_collected, unhealthy_count, lr, lr_attr, lgb, lgb_attr) ==
    LET valid == ValidRows(table)
        y     == TargetVector(valid)
        early == EarlyLocals(Len(valid), SumSeq(y))
    IN  IF TooFewRows(valid)
        THEN [locals |-> early,
              result |-> Returned(NaN, "logistic", NaN, NaN, "absent")]
        ELSE IF SumSeq(y) = 0
        THEN [locals |-> early,
              result |-> Returned(Val(0), "logistic", NaN, NaN, "absent")]
        ELSE
        LET sp      == Split(y)
            atSplit == [early EXCEPT !.n_test = sp.n_test, !.y_train = sp.y_train,
                                     !.has_test = sp.has_test, !.y_test = sp.y_test,
                                     !.lr_C = LrC(days_collected)]
        IN  IF LrFitRaises(sp.y_train)
            THEN [locals |-> [atSplit EXCEPT !.lr_fit = "raises"], result |-> Raised]
            ELSE
            LET lr_prob   == PredictLast("logistic", lr.model)
                lr_auc    == SafeAuc(sp.has_test, sp.y_test, lr)
                lr_pr_auc == SafePrAuc(sp.has_test, sp.y_test, lr)
                lr_contr  == CalcLrContributions(lr_attr)
                afterLr   == [atSplit EXCEPT !.lr_fit = "ok", !.lr_prob = lr_prob,
                                             !.lr_auc = lr_auc, !.lr_pr_auc = lr_pr_auc,
                                             !.lr_contributions = lr_contr]
                lrResult  == Returned(lr_prob, "logistic", lr_auc, lr_pr_auc, lr_contr)
            IN  IF ~LgbEnabled(days_collected, unhealthy_count)
                THEN [locals |-> afterLr, result |-> lrResult]
                ELSE IF lgb.fit = "raises"
                THEN [locals |-> [afterLr EXCEPT !.lgb_fit = "raises",
                                      !.lgb_max_depth = LgbMaxDepth(days_collected),
                                      !.lgb_train = sp.y_train],
                      result |-> lrResult]
                ELSE
                LET lgb_prob   == PredictLast("lightgbm", lgb.model)
                    lgb_auc    == SafeAuc(sp.has_test, sp.y_test, lgb)
                    lgb_pr_auc == SafePrAuc(sp.has_test, sp.y_test, lgb)
                    afterLgb   == [afterLr EXCEPT !.lgb_fit = "ok",
                                      !.lgb_max_depth = LgbMaxDepth(days_collected),
                                      !.lgb_train = sp.y_train,
                                      !.lgb_prob = lgb_prob, !.lgb_auc = lgb_auc,
                                      !.lgb_pr_auc = lgb_pr_auc]
                IN  IF LgbSelected(lgb_auc, lr_auc)
                    THEN [locals |-> [afterLgb EXCEPT !.lgb_attr = lgb_attr],
                          result |-> Returned(lgb_prob, "lightgbm", lgb_auc, lgb_pr_auc,
                                              CalcLgbContributions(lgb_attr))]
                    ELSE [locals |-> afterLgb, result |-> lrResult]

-----------------------------------------------------------------------------
(* Inputs: daily rows as pipeline.py builds them (ascending unique date    *)
(* keys).  The base rows are those of tests/test_features.py::_make_df.    *)

MaxLabelRows == 18

MaxRows == 16

BaseMood == 3

BaseRow(t) ==
    [date_key    |-> t,
     moodScore   |-> Val(3 + ((t - 1) % 3)),
     sleep_hours |-> Frac(14 + ((t - 1) % 3), 2),
     steps       |-> Val(8000 + (t - 1) * 100),
     stress      |-> IF (t - 1) % 4 = 0 THEN NaN ELSE Val(2 + ((t - 1) % 3))]

\* a logged "bad day" (demo_local.py: mood 1-2, short sleep, few steps)
SickRow(t) ==
    [date_key    |-> t,
     moodScore   |-> Val(1),
     sleep_hours |-> Val(5),
     steps       |-> Val(2000),
     stress      |-> Val(5)]

EmptyRow(t) ==
    [date_key    |-> t,
     moodScore   |-> NaN,
     sleep_hours |-> NaN,
     steps       |-> NaN,
     stress      |-> NaN]

RawFields == {"moodScore", "sleep_hours", "steps", "stress"}

EditMoods == {NaN, Val(1), Val(2), Val(4)}

\* n rows of constant mood, with the (at most two) rows of S overwritten by f
MoodFrame(n, S, f) ==
    [t \in 1..n |->
        [BaseRow(t) EXCEPT !.moodScore = IF t \in S THEN f[t] ELSE Val(BaseMood)]]

\* n base rows in which the fields F are not logged on rows a..b
GapFrame(n, a, b, F) ==
    [t \in 1..n |->
        [fld \in DOMAIN BaseRow(t) |->
            IF fld \in F /\ t \in a..b THEN NaN ELSE BaseRow(t)[fld]]]

\* d with rows a..b replaced by other rows of the same dates
Relogged(d, a, b, kind) ==
    [t \in 1..Len(d) |->
        IF t \in a..b
        THEN IF kind = "sick" THEN SickRow(t) ELSE EmptyRow(t)
        ELSE d[t]]

NoCall == [fn |-> "none"]

NoLocals == [fn |-> "none"]

NoResult == [kind |-> "none"]

\* no Firestore client and no batch run
NoDb == [users |-> {}]

NoBatch == [started |-> FALSE]

-----------------------------------------------------------------------------
(* generate_labels applied to an input frame                               *)

InitLabels ==
    /\ pc = "input"
    /\ \E n \in (LABEL_WINDOW - 1)..MaxLabelRows :
         \E r1 \in 0..n :
           \E r2 \in r1..n :
             \E f \in [{r1, r2} \ {0} -> EditMoods] :
               df = MoodFrame(n, {r1, r2} \ {0}, f)
    /\ dfAlt = <<>>
    /\ labels = <<>>
    /\ features = <<>>
    /\ featuresAlt = <<>>
    /\ call = NoCall
    /\ locals = NoLocals
    /\ result = NoResult
    /\ db = NoDb
    /\ batch = NoBatch

GenerateLabels ==
    /\ pc = "input"
    /\ labels' = generate_labels(df)
    /\ pc' = "labelled"
    /\ UNCHANGED <<df, dfAlt, features, featuresAlt, call, locals, result, db, batch>>

NextLabels == GenerateLabels

SpecLabels == InitLabels /\ [][NextLabels]_vars

-----------------------------------------------------------------------------
(* build_features applied to an input frame                                *)

InitFeatures ==
    /\ pc = "input"
    /\ \E n \in 1..MaxRows :
         \E a \in 1..n :
           \E b \in (a - 1)..n :
             \E F \in (SUBSET RawFields) \ {{}} :
               df = GapFrame(n, a, b, F)
    /\ dfAlt = <<>>
    /\ labels = <<>>
    /\ features = <<>>
    /\ featuresAlt = <<>>
    /\ call = NoCall
    /\ locals = NoLocals
    /\ result = NoResult
    /\ db = NoDb
    /\ batch = NoBatch

BuildFeatures ==
    /\ pc = "input"
    /\ features' = build_features(df)
    /\ pc' = "built"
    /\ UNCHANGED <<df, dfAlt, labels, featuresAlt, call, locals, result, db, batch>>

NextFeatures == BuildFeatures

SpecFeatures == InitFeatures /\ [][NextFeatures]_vars

-----------------------------------------------------------------------------
(* build_features applied to two histories that agree up to some day       *)

InitLeak ==
    /\ pc = "input"
    /\ \E n \in 1..MaxRows :
         \E a \in 1..n :
           \E b \in {a - 1, a, a + FILL_WINDOW} \cap (0..n) :
             \E c \in 1..n :
               \E e \in {c, n} :
                 \E kind \in {"sick", "empty"} :
                   /\ df = GapFrame(n, a, b, RawFields)
                   /\ dfAlt = Relogged(GapFrame(n, a, b, RawFields), c, e, kind)
    /\ labels = <<>>
    /\ features = <<>>
    /\ featuresAlt = <<>>
    /\ call = NoCall
    /\ locals = NoLocals
    /\ result = NoResult
    /\ db = NoDb
    /\ batch = NoBatch

BuildFeaturesBoth ==
    /\ pc = "input"
    /\ features' = build_features(df)
    /\ featuresAlt' = build_features(dfAlt)
    /\ pc' = "built"
    /\ UNCHANGED <<df, dfAlt, labels, call, locals, result, db, batch>>

NextLeak == BuildFeaturesBoth

SpecLeak == InitLeak /\ [][NextLeak]_vars


-----------------------------------------------------------------------------
(* Properties of generate_labels (SpecLabels)                              *)

Mood(t) == df[t].moodScore

\* the integer sum of the logged moods of rows lo..hi
RECURSIVE MoodSum(_, _)
MoodSum(lo, hi) ==
    IF lo > hi THEN 0
    ELSE (IF Mood(hi).ok THEN Mood(hi).num ELSE 0) + MoodSum(lo, hi - 1)

LoggedIn(lo, hi) == {j \in lo..hi : Mood(j).ok}

\* the 14 row slots ending at t
Slots(t) == (t - LABEL_WINDOW + 1)..t

\* C1 as claimed: y_today(t) is null exactly when fewer than 14 rows end at
\* t or mood(t) is null; otherwise it is 1 iff mood(t) <= ma14(t) - 1, where
\* ma14(t) is the mean of the non-null moods among the 14 rows ending at t.
C1_AsClaimed ==
    pc = "labelled" =>
        \A t \in 1..Len(df) :
            LET k == Cardinality(LoggedIn(Max2(1, t - LABEL_WINDOW + 1), t))
            IN  /\ IsNa(labels[t].y_today) <=> (t < LABEL_WINDOW \/ IsNa(Mood(t)))
                /\ NotNa(labels[t].y_today) =>
                     labels[t].y_today =
                        IF k * Mood(t).num + k <= MoodSum(t - LABEL_WINDOW + 1, t)
                        THEN Val(1) ELSE Val(0)

\* C1 (amended): y_today(t) is null exactly when fewer than 14 rows end at t
\* or some mood among the 14 rows ending at t is null; otherwise it is 1 if
\* mood(t) <= (mean of those 14 moods) - 1 and 0 if not.
C1_YToday ==
    pc = "labelled" =>
        \A t \in 1..Len(df) :
            /\ IsNa(labels[t].y_today) <=>
                 (t < LABEL_WINDOW \/ \E j \in Slots(t) : IsNa(Mood(j)))
            /\ NotNa(labels[t].y_today) =>
                 labels[t].y_today =
                    IF LABEL_WINDOW * Mood(t).num + LABEL_WINDOW
                          <= MoodSum(t - LABEL_WINDOW + 1, t)
                    THEN Val(1) ELSE Val(0)

\* labels computed; one row is unhealthy, one is healthy, and one row with a
\* logged mood and 14 row slots has no label because of a gap in its window
C1_Witness ==
    /\ pc = "labelled"
    /\ \E t \in 1..Len(df) : labels[t].y_today = Val(1)
    /\ \E t \in 1..Len(df) : labels[t].y_today = Val(0)
    /\ \E t \in LABEL_WINDOW..Len(df) :
         NotNa(Mood(t)) /\ IsNa(labels[t].y_today)

Next3(t) == (t + 1)..(t + HORIZON_3D)

\* C3 as claimed: y_3d(t) is non-null exactly when rows t+1..t+3 exist and
\* all have non-null y_today, whatever y_today(t) is; it is then the OR of
\* the three; the last 3 rows have y_3d null.
C3_AsClaimed ==
    pc = "labelled" =>
        \A t \in 1..Len(df) :
            /\ NotNa(labels[t].y_3d) <=>
                 (t + HORIZON_3D <= Len(df)
                  /\ \A j \in Next3(t) : NotNa(labels[j].y_today))
            /\ NotNa(labels[t].y_3d) =>
                 labels[t].y_3d =
                    IF \E j \in Next3(t) : labels[j].y_today = Val(1)
                    THEN Val(1) ELSE Val(0)

\* C3 (amended): y_3d(t) is non-null exactly when y_today(t) is non-null and
\* rows t+1..t+3 exist and all have non-null y_today; it is then 1 if one of
\* those three is 1 and 0 otherwise; the last 3 rows have y_3d null.
C3_Y3d ==
    pc = "labelled" =>
        \A t \in 1..Len(df) :
            /\ NotNa(labels[t].y_3d) <=>
                 (/\ NotNa(labels[t].y_today)
                  /\ t + HORIZON_3D <= Len(df)
                  /\ \A j \in Next3(t) : NotNa(labels[j].y_today))
            /\ NotNa(labels[t].y_3d) =>
                 labels[t].y_3d =
                    IF \E j \in Next3(t) : labels[j].y_today = Val(1)
                    THEN Val(1) ELSE Val(0)
            /\ t > Len(df) - HORIZON_3D => IsNa(labels[t].y_3d)

\* labels computed; a 3-day label is 1, and a row without its own y_today is
\* followed by three labelled rows
C3_Witness ==
    /\ pc = "labelled"
    /\ \E t \in 1..Len(df) : labels[t].y_3d = Val(1)
    /\ \E t \in 1..(Len(df) - HORIZON_3D) :
         /\ IsNa(labels[t].y_today)
         /\ \A j \in Next3(t) : NotNa(labels[j].y_today)

-----------------------------------------------------------------------------
(* Properties of build_features (SpecFeatures, SpecLeak)                   *)

LaggedColumns ==
    {"mood_lag1", "mood_ma3", "mood_ma7", "mood_delta1", "mood_dev14",
     "steps_filled", "steps_missing", "steps_dev",
     "stress_filled", "stress_missing"}

AgreeBefore(t) == \A i \in 1..(t - 1) : df[i] = dfAlt[i]

\* C2: two histories with the same dates that agree on every row before t
\* have equal mood, steps and stress features at row t; mood_lag1 is
\* undefined at the first row and is mood(i-1) at every later row.
C2_NoLeak ==
    pc = "built" =>
        /\ \A t \in 1..Len(df) :
             AgreeBefore(t) =>
                \A col \in LaggedColumns : features[t][col] = featuresAlt[t][col]
        /\ \A t \in 1..Len(df) :
             features[t].mood_lag1 = IF t = 1 THEN NaN ELSE df[t - 1].moodScore

\* both histories built; they agree before some row t > 1 and differ in the
\* mood, steps and stress logged on day t itself
C2_Witness ==
    /\ pc = "built"
    /\ \E t \in 2..Len(df) :
         /\ AgreeBefore(t)
         /\ df[t].moodScore # dfAlt[t].moodScore
         /\ df[t].steps # dfAlt[t].steps
         /\ df[t].stress # dfAlt[t].stress
         /\ NotNa(features[t].mood_dev14)

ImputedColumns ==
    {"sleep_hours_filled", "sleep_missing", "sleep_dev",
     "steps_filled", "steps_missing", "steps_dev",
     "stress_filled", "stress_missing"}

\* C10: at every row the sleep, steps and stress feature columns are
\* non-null, also when the trailing 7-row window holds no observed value.
C10_Imputed ==
    pc = "built" =>
        \A t \in 1..Len(df) :
            \A col \in ImputedColumns : NotNa(features[t][col])

Flag(cell) == IF IsNa(cell) THEN Val(1) ELSE Val(0)

\* C11: at every row t, sleep_missing(t) is 1 if sleep_hours(t) is null and
\* 0 otherwise; at every row after the first, steps_missing(t) is 1 if
\* steps(t-1) is null and 0 otherwise, and stress_missing(t) is 1 if
\* stress(t-1) is null and 0 otherwise; no other value enters a flag.
C11_Flags ==
    pc = "built" =>
        \A t \in 1..Len(df) :
            /\ features[t].sleep_missing = Flag(df[t].sleep_hours)
            /\ t > 1 => features[t].steps_missing = Flag(df[t - 1].steps)
            /\ t > 1 => features[t].stress_missing = Flag(df[t - 1].stress)

\* features built; at some row sleep is not logged, at some later row the
\* previous day's steps are missing while the day's own steps are logged,
\* and at some row the previous day's stress is logged while the day's own
\* stress is not
C11_Witness ==
    /\ pc = "built"
    /\ \E t \in 1..Len(df) :
         IsNa(df[t].sleep_hours) /\ features[t].sleep_missing = Val(1)
    /\ \E t \in 2..Len(df) :
         /\ IsNa(df[t - 1].steps) /\ NotNa(df[t].steps)
         /\ features[t].steps_missing = Val(1)
    /\ \E t \in 2..Len(df) :
         /\ NotNa(df[t - 1].stress) /\ IsNa(df[t].stress)
         /\ features[t].stress_missing = Val(0)


-----------------------------------------------------------------------------
(* calculate_confidence applied to its three inputs                        *)

MaxDays == 61

MaxUnhealthy == 11

\* missing rates: k of the trailing 7 rows, and the rates of the tests
MissingRates ==
    {Frac(k, 7) : k \in 0..7} \cup {Frac(30, 100), Frac(35, 100), Frac(1, 2)}

InitConfidence ==
    /\ pc = "input"
    /\ \E d \in 0..MaxDays :
         \E u \in 0..MaxUnhealthy :
           \E r \in MissingRates :
             call = [fn |-> "calculate_confidence", days_collected |-> d,
                     unhealthy_count |-> u, recent_missing_rate |-> r]
    /\ df = <<>>
    /\ dfAlt = <<>>
    /\ labels = <<>>
    /\ features = <<>>
    /\ featuresAlt = <<>>
    /\ locals = NoLocals
    /\ result = NoResult
    /\ db = NoDb
    /\ batch = NoBatch

CalculateConfidence ==
    /\ pc = "input"
    /\ result' = [kind  |-> "confidence",
                  level |-> calculate_confidence(call.days_collected,
                                call.unhealthy_count, call.recent_missing_rate)]
    /\ pc' = "returned"
    /\ UNCHANGED <<df, dfAlt, labels, features, featuresAlt, call, locals, db, batch>>

NextConfidence == CalculateConfidence

SpecConfidence == InitConfidence /\ [][NextConfidence]_vars

Tier(level) == IF level = "high" THEN 2 ELSE IF level = "medium" THEN 1 ELSE 0

\* the base tier stated on its own: the number of threshold pairs cleared,
\* where the high pair counts only on top of the medium pair
BaseTier(d, u) ==
    IF d >= 60 /\ u >= 10 THEN 2
    ELSE IF d >= 30 /\ u >= 5 THEN 1 ELSE 0

\* C9: the base tier is high / medium / low by the day and unhealthy-count
\* thresholds; with recent_missing_rate >= 0.30 the result is exactly one
\* tier below the base (low stays low), otherwise the base tier; it is never
\* above the base tier.
C9_Confidence ==
    pc = "returned" =>
        LET base == BaseTier(call.days_collected, call.unhealthy_count)
            r    == call.recent_missing_rate
            high == 10 * r.num >= 3 * r.den
        IN  /\ Tier(result.level) = IF high THEN Max2(base - 1, 0) ELSE base
            /\ Tier(result.level) <= base
            /\ result.level \in {"low", "medium", "high"}

\* a call at the high thresholds with the missing rate exactly at 0.30
\* returned medium
C9_Witness ==
    /\ pc = "returned"
    /\ call.days_collected = CONFIDENCE_HIGH_DAYS
    /\ call.unhealthy_count = CONFIDENCE_HIGH_UNHEALTHY
    /\ call.recent_missing_rate = MISSING_RATE_THRESHOLD
    /\ result.level = "medium"


-----------------------------------------------------------------------------
(* train_and_predict applied to a feature/label table                      *)

ExtraRows == 2

\* the counts of labelled rows: none, around MIN_DAYS_TODAY, and where a
\* third of the rows exceeds VALIDATION_DAYS
LabelledCounts ==
    {0} \cup ((MIN_DAYS_TODAY - 1)..(MIN_DAYS_TODAY - 1 + ExtraRows))
        \cup ((3 * VALIDATION_DAYS + 3)..(3 * VALIDATION_DAYS + 2 + ExtraRows))

\* n complete rows whose label is `inside` on rows a+1..a+b and the other
\* value elsewhere; with padding, a first row with a label but a missing
\* feature and a last row without a label surround them
TrainTable(n, a, b, inside, padded) ==
    LET body == [i \in 1..n |->
                    [target   |-> IF i \in (a + 1)..(a + b)
                                  THEN Val(inside) ELSE Val(1 - inside),
                     complete |-> TRUE]]
    IN  IF padded
        THEN <<[target |-> Val(1), complete |-> FALSE]>> \o body
                 \o <<[target |-> NaN, complete |-> TRUE]>>
        ELSE body

DaysAndUnhealthy ==
    {<<LGBM_MIN_DAYS - 1, LGBM_MIN_UNHEALTHY>>,
     <<LGBM_MIN_DAYS, LGBM_MIN_UNHEALTHY - 1>>,
     <<LGBM_MIN_DAYS, LGBM_MIN_UNHEALTHY>>,
     <<LGB_SHALLOW_BELOW, LGBM_MIN_UNHEALTHY>>}

InitTrain ==
    /\ pc = "input"
    /\ \E n \in LabelledCounts :
         \E a \in 0..n :
           \E b \in {0, 1, 2, n - a} \cap (0..(n - a)) :
             \E inside \in {0, 1} :
               \E padded \in BOOLEAN :
                 \E du \in DaysAndUnhealthy :
                   call = [fn |-> "train_and_predict",
                           table |-> TrainTable(n, a, b, inside, padded),
                           days_collected |-> du[1],
                           unhealthy_count |-> du[2]]
    /\ df = <<>>
    /\ dfAlt = <<>>
    /\ labels = <<>>
    /\ features = <<>>
    /\ featuresAlt = <<>>
    /\ locals = NoLocals
    /\ result = NoResult
    /\ db = NoDb
    /\ batch = NoBatch

TrainAndPredict ==
    /\ pc = "input"
    /\ \E lr \in FitOutcomes :
         \E lr_attr \in AttrOutcomes :
           \E lgb \in LgbOutcomes :
             \E lgb_attr \in AttrOutcomes :
               LET out == train_and_predict(call.table, call.days_collected,
                              call.unhealthy_count, lr, lr_attr, lgb, lgb_attr)
               IN  /\ locals' = out.locals
                   /\ result' = out.result
    /\ pc' = "returned"
    /\ UNCHANGED <<df, dfAlt, labels, features, featuresAlt, call, db, batch>>

NextTrain == TrainAndPredict

SpecTrain == InitTrain /\ [][NextTrain]_vars


-----------------------------------------------------------------------------
(* Properties of train_and_predict (SpecTrain)                             *)

\* the labels of the rows with a label and all features, in table order
RECURSIVE LabelsOfValid(_)
LabelsOfValid(table) ==
    IF table = <<>> THEN <<>>
    ELSE IF Head(table).target.ok /\ Head(table).complete
         THEN <<Head(table).target.num>> \o LabelsOfValid(Tail(table))
         ELSE LabelsOfValid(Tail(table))

ValidLabels == LabelsOfValid(call.table)

HasPositive(y) == \E i \in 1..Len(y) : y[i] = 1

NoFit == locals.lr_fit = "not_attempted" /\ locals.lgb_fit = "not_attempted"

\* C4: with at least MIN_DAYS_TODAY valid rows and no positive label among
\* them the result is probability 0.0, auc and pr_auc null, model_type
\* logistic, and no candidate is fitted.
C4_ZeroPositives ==
    (pc = "returned" /\ Len(ValidLabels) >= MIN_DAYS_TODAY /\ ~HasPositive(ValidLabels)) =>
        /\ result.kind = "returned"
        /\ result.probability = Val(0)
        /\ IsNa(result.auc) /\ IsNa(result.pr_auc)
        /\ result.model_type = "logistic"
        /\ NoFit

\* such a call returned although a row dropped for a missing feature
\* carries a positive label and the tree candidate is enabled
C4_Witness ==
    /\ pc = "returned"
    /\ Len(ValidLabels) >= MIN_DAYS_TODAY
    /\ ~HasPositive(ValidLabels)
    /\ \E i \in 1..Len(call.table) : call.table[i].target = Val(1)
    /\ LgbEnabled(call.days_collected, call.unhealthy_count)
    /\ result.probability = Val(0)

\* C5: with fewer than MIN_DAYS_TODAY valid rows the result has probability,
\* auc and pr_auc null, no model is fitted and nothing is raised, whatever
\* days_collected and unhealthy_count are.
C5_TooFewRows ==
    (pc = "returned" /\ Len(ValidLabels) < MIN_DAYS_TODAY) =>
        /\ result.kind = "returned"
        /\ IsNa(result.probability)
        /\ IsNa(result.auc) /\ IsNa(result.pr_auc)
        /\ NoFit

\* a table of at least MIN_DAYS_TODAY rows, one short in valid rows, with a
\* positive label and the tree candidate enabled, got no prediction
C5_Witness ==
    /\ pc = "returned"
    /\ Len(call.table) >= MIN_DAYS_TODAY
    /\ Len(ValidLabels) = MIN_DAYS_TODAY - 1
    /\ HasPositive(ValidLabels)
    /\ LgbEnabled(call.days_collected, call.unhealthy_count)
    /\ IsNa(result.probability)

\* C6: with n valid rows the validation set is the last
\* N = max(1, min(VALIDATION_DAYS, n div 3)) rows and the training set the
\* rows before them; if those hold no positive label the split is
\* discarded, all n rows are trained on and auc and pr_auc are null.
C6_Split ==
    LET y == ValidLabels
        n == Len(y)
        N == IF n \div 3 > VALIDATION_DAYS THEN VALIDATION_DAYS
             ELSE IF n \div 3 < 1 THEN 1 ELSE n \div 3
    IN  (pc = "returned" /\ n >= MIN_DAYS_TODAY /\ HasPositive(y)) =>
            IF \E i \in 1..(n - N) : y[i] = 1
            THEN /\ locals.has_test
                 /\ locals.y_train = [i \in 1..(n - N) |-> y[i]]
                 /\ locals.y_test = [i \in 1..N |-> y[n - N + i]]
            ELSE /\ ~locals.has_test
                 /\ locals.y_train = y
                 /\ result.kind = "returned"
                 /\ IsNa(result.auc) /\ IsNa(result.pr_auc)

\* more than 3 * VALIDATION_DAYS valid rows whose only positives are among
\* the last VALIDATION_DAYS: the split was discarded and a model fitted
C6_Witness ==
    /\ pc = "returned"
    /\ locals.n_valid > 3 * VALIDATION_DAYS + 2
    /\ locals.n_test = VALIDATION_DAYS
    /\ ~locals.has_test
    /\ locals.lr_fit = "ok"
    /\ Len(locals.y_train) = locals.n_valid

Greater(a, b) == a.ok /\ b.ok /\ a.num * b.den > b.num * a.den

\* C7: model_type is lightgbm exactly when the tree candidate was enabled,
\* its fit succeeded, and its ROC-AUC is strictly higher than the logistic
\* one or is defined while the logistic one is not; otherwise it is
\* logistic; probability, auc and pr_auc are those of the reported candidate.
C7_Selection ==
    (pc = "returned" /\ result.kind = "returned") =>
        /\ result.model_type \in {"logistic", "lightgbm"}
        /\ result.model_type = "lightgbm" <=>
             /\ call.days_collected >= LGBM_MIN_DAYS
             /\ call.unhealthy_count >= LGBM_MIN_UNHEALTHY
             /\ locals.lgb_fit = "ok"
             /\ \/ Greater(locals.lgb_auc, locals.lr_auc)
                \/ NotNa(locals.lgb_auc) /\ IsNa(locals.lr_auc)
        /\ result.model_type = "lightgbm" =>
             /\ result.probability = locals.lgb_prob
             /\ result.auc = locals.lgb_auc
             /\ result.pr_auc = locals.lgb_pr_auc
        /\ (result.model_type = "logistic" /\ locals.lr_fit = "ok") =>
             /\ result.probability = locals.lr_prob
             /\ result.auc = locals.lr_auc
             /\ result.pr_auc = locals.lr_pr_auc

\* both candidates were fitted and scored, the two ROC-AUC are equal, and
\* the logistic candidate is reported
C7_Witness ==
    /\ pc = "returned"
    /\ locals.lgb_fit = "ok"
    /\ NotNa(locals.lr_auc)
    /\ locals.lgb_auc = locals.lr_auc
    /\ result.model_type = "logistic"
    /\ result.probability # locals.lgb_prob

LogisticResult ==
    /\ result.kind = "returned"
    /\ result.model_type = "logistic"
    /\ result.probability = locals.lr_prob
    /\ result.auc = locals.lr_auc
    /\ result.pr_auc = locals.lr_pr_auc
    /\ result.contributions = locals.lr_contributions

\* C8 as claimed: if the tree candidate's fit or its attribution step raises,
\* train_and_predict does not raise and returns the logistic candidate's
\* model_type, probability, auc, pr_auc and contributions.
C8_AsClaimed ==
    (pc = "returned" /\ (locals.lgb_fit = "raises" \/ locals.lgb_attr = "raises")) =>
        LogisticResult

\* C8 (amended): if the tree candidate's fit raises, train_and_predict does
\* not raise and returns the logistic candidate's result; if the attribution
\* step of the selected tree candidate raises, it does not raise either and
\* returns the tree candidate's probability, auc and pr_auc with model_type
\* lightgbm and an empty contribution list.
C8_Fallback ==
    /\ (pc = "returned" /\ locals.lgb_fit = "raises") => LogisticResult
    /\ (pc = "returned" /\ locals.lgb_attr = "raises") =>
          /\ result.kind = "returned"
          /\ result.model_type = "lightgbm"
          /\ result.probability = locals.lgb_prob
          /\ result.auc = locals.lgb_auc
          /\ result.pr_auc = locals.lgb_pr_auc
          /\ result.contributions = "empty"

\* the tree candidate was enabled, its fit raised after the logistic
\* candidate had been scored on a validation set, and the call returned
C8_Witness ==
    /\ pc = "returned"
    /\ locals.lgb_fit = "raises"
    /\ NotNa(locals.lr_auc)
    /\ result.kind = "returned"
    /\ result.contributions = "logistic_top3"

BothClasses(y) == 0 \in Classes(y) /\ 1 \in Classes(y)

\* C18: for every label sequence of valid rows that passes the row-count
\* gate and holds a positive, the labels handed to the logistic fit (and to
\* the tree fit, when attempted) hold a positive and a negative, whether the
\* trailing split is kept or discarded.
C18_TwoClasses ==
    (pc = "returned" /\ Len(ValidLabels) >= MIN_DAYS_TODAY /\ HasPositive(ValidLabels)) =>
        /\ locals.lr_fit # "not_attempted"
        /\ BothClasses(locals.y_train)
        /\ locals.lgb_fit # "not_attempted" => BothClasses(locals.lgb_train)

-----------------------------------------------------------------------------
(* advice.py.  An advice is [param, value, detail]: for sleep the value is  *)
(* rec_hours in tenths of an hour and the detail <<rec_bed_hour,            *)
(* rec_bed_min>>; for steps the value is the threshold; for stress the      *)
(* value is rec_level and the detail <<diff_pct>>.                          *)

ADVICE_MIN_ROWS == 14

ADVICE_MIN_GROUP == 3

MAX_ADVICES == 2

WAKE_HOUR == 7

\* df.dropna(subset=["moodScore"])
DropnaMood(d) == SelectSeq(d, LAMBDA r : r.moodScore.ok)

\* Series.dropna()
Dropna(series) == SelectSeq(series, LAMBDA c : c.ok)

\* Series.mean() of a non-empty series without NaN
SeriesMean(series) ==
    LET tot == SumObs(series, 1, Len(series))
    IN  Frac(tot.num, tot.den * Len(series))

\* round(x) of a float: to the nearest integer, halves to the even one
RoundHalfEven(x) ==
    LET f == x.num \div x.den
        r == 2 * (x.num - f * x.den)
    IN  IF r < x.den THEN f
        ELSE IF r > x.den THEN f + 1
        ELSE IF f % 2 = 0 THEN f ELSE f + 1

\* round(x, 1), as a number of tenths
RoundTenths(x) == RoundHalfEven(Frac(10 * x.num, x.den))

\* the tenths k for which the double nearest to k/10 is below k/10, so that
\* (rec_hours % 1) * 60 falls just short of a whole number of minutes
DoubleBelow(k) ==
    IF k < 80 THEN (k % 10) \in {1, 3, 6, 8} ELSE (k % 10) \in {1, 2, 6, 7}

\* rec_bed_hour = int(24 + 7 - rec_hours) % 24
RecBedHour(k) == ((10 * (24 + WAKE_HOUR) - k) \div 10) % 24

\* rec_bed_min = int((rec_hours % 1) * 60)
RecBedMin(k) == 6 * (k % 10) - (IF DoubleBelow(k) THEN 1 ELSE 0)

\* valid[valid["moodScore"] >= mean_mood + 0.5]
GoodDays(valid, mean_mood) ==
    SelectSeq(valid, LAMBDA r : Le(Add(mean_mood, Frac(1, 2)), r.moodScore))

\* valid[valid["moodScore"] <= mean_mood - 0.5]
BadDays(valid, mean_mood) ==
    SelectSeq(valid, LAMBDA r : Le(r.moodScore, Sub(mean_mood, Frac(1, 2))))

\* the sleep block (lines 43-57)
SleepAdvice(good_days, bad_days) ==
    LET good_sleep == Dropna(Column(good_days, "sleep_hours"))
        bad_sleep  == Dropna(Column(bad_days, "sleep_hours"))
    IN  IF Len(good_sleep) >= ADVICE_MIN_GROUP /\ Len(bad_sleep) >= ADVICE_MIN_GROUP
        THEN IF Greater(Sub(SeriesMean(good_sleep), SeriesMean(bad_sleep)), Frac(3, 10))
             THEN LET k == RoundTenths(SeriesMean(good_sleep))
                  IN  <<[param |-> "sleep", value |-> k,
                         detail |-> <<RecBedHour(k), RecBedMin(k)>>]>>
             ELSE <<>>
        ELSE <<>>

\* the steps block (lines 60-70)
StepsAdvice(good_days, bad_days) ==
    LET good_steps == Dropna(Column(good_days, "steps"))
        bad_steps  == Dropna(Column(bad_days, "steps"))
    IN  IF Len(good_steps) >= ADVICE_MIN_GROUP /\ Len(bad_steps) >= ADVICE_MIN_GROUP
        THEN IF Greater(Sub(SeriesMean(good_steps), SeriesMean(bad_steps)), Val(500))
             THEN LET avg == SeriesMean(good_steps)
                  IN  <<[param |-> "steps",
                         value |-> RoundHalfEven(Frac(avg.num, avg.den * 1000)) * 1000,
                         detail |-> <<>>]>>
             ELSE <<>>
        ELSE <<>>

\* (series <= mean_mood - 1).mean() over the rows of a non-empty group
BadRate(rows, mean_mood) ==
    Frac(Len(SelectSeq(rows, LAMBDA r : Le(r.moodScore, Sub(mean_mood, Val(1))))),
         Len(rows))

\* valid[valid["stress"].fillna(99) <= rec_level]
LowStress(valid, rec_level) ==
    SelectSeq(valid, LAMBDA r :
        Le(IF r.stress.ok THEN r.stress ELSE Val(99), Val(rec_level)))

\* valid[valid["stress"].fillna(0) > rec_level]
HighStress(valid, rec_level) ==
    SelectSeq(valid, LAMBDA r :
        Greater(IF r.stress.ok THEN r.stress ELSE Val(0), Val(rec_level)))

\* diff_pct = int(round((high_bad_rate - low_bad_rate) * 100))
DiffPct(high_bad_rate, low_bad_rate) ==
    LET diff == Sub(high_bad_rate, low_bad_rate)
    IN  RoundHalfEven(Frac(100 * diff.num, diff.den))

\* the stress block (lines 73-92)
StressAdvice(valid, mean_mood, good_days, bad_days) ==
    LET good_stress == Dropna(Column(good_days, "stress"))
        bad_stress  == Dropna(Column(bad_days, "stress"))
    IN  IF Len(good_stress) >= ADVICE_MIN_GROUP /\ Len(bad_stress) >= ADVICE_MIN_GROUP
        THEN IF Greater(Sub(SeriesMean(bad_stress), SeriesMean(good_stress)), Frac(1, 2))
             THEN LET rec_level   == RoundHalfEven(SeriesMean(good_stress))
                      low_stress  == LowStress(valid, rec_level)
                      high_stress == HighStress(valid, rec_level)
                  IN  IF Len(low_stress) > 0 /\ Len(high_stress) > 0
                      THEN LET diff_pct == DiffPct(BadRate(high_stress, mean_mood),
                                                   BadRate(low_stress, mean_mood))
                           IN  IF diff_pct > 5
                               THEN <<[param |-> "stress", value |-> rec_level,
                                       detail |-> <<diff_pct>>]>>
                               ELSE <<>>
                      ELSE <<>>
             ELSE <<>>
        ELSE <<>>

\* advices[:2]
FirstTwoSkipping(advices) ==
    IF Len(advices) > MAX_ADVICES THEN <<advices[1], advices[Len(advices)]>>
    ELSE advices

FirstTwo(advices) == SubSeq(advices, 1, Min2(Len(advices), MAX_ADVICES))

\* the locals of a call of generate_advice that returned [] before line 40
NoAdviceLocals(n_valid, mean_mood, n_good, n_bad) ==
    [fn |-> "generate_advice", n_valid |-> n_valid, mean_mood |-> mean_mood,
     n_good |-> n_good, n_bad |-> n_bad, advices |-> <<>>]

\* generate_advice(df, p_today); the value is [locals, result]
generate_advice(d, p_today) ==
    IF IsNa(p_today)
    THEN [locals |-> NoAdviceLocals(0, NaN, 0, 0), result |-> <<>>]
    ELSE IF Len(d) < ADVICE_MIN_ROWS
    THEN [locals |-> NoAdviceLocals(0, NaN, 0, 0), result |-> <<>>]
    ELSE
    LET valid == DropnaMood(d)
    IN  IF Len(valid) < ADVICE_MIN_ROWS
        THEN [locals |-> NoAdviceLocals(Len(valid), NaN, 0, 0), result |-> <<>>]
        ELSE
        LET mean_mood == SeriesMean(Column(valid, "moodScore"))
            good_days == GoodDays(valid, mean_mood)
            bad_days  == BadDays(valid, mean_mood)
            early     == NoAdviceLocals(Len(valid), mean_mood,
                                        Len(good_days), Len(bad_days))
        IN  IF Len(good_days) < ADVICE_MIN_GROUP \/ Len(bad_days) < ADVICE_MIN_GROUP
            THEN [locals |-> early, result |-> <<>>]
            ELSE
            LET advices == SleepAdvice(good_days, bad_days)
                           \o StepsAdvice(good_days, bad_days)
                           \o StressAdvice(valid, mean_mood, good_days, bad_days)
            IN  [locals |-> [early EXCEPT !.advices = advices],
                 result |-> FirstTwo(advices)]

-----------------------------------------------------------------------------
(* generate_advice applied to a history and a today-probability            *)

MaxAdviceRows == 15

\* how sleep and steps differ between good and bad days: sleep is flat, a
\* whole or half hour longer on good days, mixed, or missing on bad days;
\* steps are flat or differ by a gap
Profiles ==
    {<<"flat", "flat">>, <<"flat", "gap">>, <<"whole", "flat">>,
     <<"half", "gap">>, <<"mixed", "flat">>, <<"mixed", "gap">>,
     <<"missing", "gap">>}

\* the k-th good day (mood 5); gh of them are under high stress
GoodRow(t, k, gh, profile) ==
    [date_key    |-> t,
     moodScore   |-> Val(5),
     sleep_hours |-> IF profile[1] \in {"flat", "whole"} THEN Val(7)
                     ELSE IF profile[1] = "mixed" /\ k % 3 # 2 THEN Val(7)
                     ELSE Frac(15, 2),
     steps       |-> IF profile[2] = "gap" THEN Val(9400) ELSE Val(8000),
     stress      |-> IF k <= gh THEN Val(4) ELSE Val(1)]

\* the k-th ordinary day (mood 3); nh of them are under raised stress and
\* the next nx did not log stress
NeutralRow(t, k, nh, nx) ==
    [date_key    |-> t,
     moodScore   |-> Val(BaseMood),
     sleep_hours |-> Val(7),
     steps       |-> Val(8000),
     stress      |-> IF k <= nh THEN Val(3)
                     ELSE IF k <= nh + nx THEN NaN ELSE Val(1)]

\* the k-th bad day (mood 1); bl of them are under low stress
BadRow(t, k, bl, profile) ==
    [date_key    |-> t,
     moodScore   |-> Val(1),
     sleep_hours |-> IF profile[1] = "flat" THEN Val(7)
                     ELSE IF profile[1] = "missing" THEN NaN ELSE Val(6),
     steps       |-> IF profile[2] = "gap" THEN Val(4000) ELSE Val(8000),
     stress      |-> IF k <= bl THEN Val(1) ELSE Val(5)]

\* a day whose mood was not logged
NoMoodRow(t) == [SickRow(t) EXCEPT !.moodScore = NaN]

\* g good, m ordinary, b bad days and x days without a mood, in date order
AdviceFrame(g, m, b, x, gh, nh, nx, bl, profile) ==
    [t \in 1..(g + m + b + x) |->
        IF t <= g THEN GoodRow(t, t, gh, profile)
        ELSE IF t <= g + m THEN NeutralRow(t, t - g, nh, nx)
        ELSE IF t <= g + m + b THEN BadRow(t, t - g - m, bl, profile)
        ELSE NoMoodRow(t)]

PTodayValues == {NaN, Frac(6, 10), Frac(1, 10)}

InitAdvice ==
    /\ pc = "input"
    /\ \E n \in (ADVICE_MIN_ROWS - 1)..MaxAdviceRows :
         \E g \in (ADVICE_MIN_GROUP - 1)..(ADVICE_MIN_GROUP + 1) :
           \E b \in (ADVICE_MIN_GROUP - 1)..(ADVICE_MIN_GROUP + 1) :
             \E x \in {0, 1} :
               \E gh \in {0, 1} :
                 \E nh \in 0..3 :
                   \E nx \in {0, 1} :
                     \E bl \in 0..2 :
                       \E profile \in Profiles :
                         df = AdviceFrame(g, n - g - b - x, b, x, gh, nh, nx, bl, profile)
    /\ dfAlt = <<>>
    /\ labels = <<>>
    /\ features = <<>>
    /\ featuresAlt = <<>>
    /\ call = NoCall
    /\ locals = NoLocals
    /\ result = NoResult
    /\ db = NoDb
    /\ batch = NoBatch

GenerateAdvice ==
    /\ pc = "input"
    /\ \E p_today \in PTodayValues :
         LET out == generate_advice(df, p_today)
         IN  /\ call' = [fn |-> "generate_advice", p_today |-> p_today]
             /\ locals' = out.locals
             /\ result' = [kind |-> "advices", advices |-> out.result]
    /\ pc' = "returned"
    /\ UNCHANGED <<df, dfAlt, labels, features, featuresAlt, db, batch>>

NextAdvice == GenerateAdvice

SpecAdvice == InitAdvice /\ [][NextAdvice]_vars

Params(advices) == [i \in 1..Len(advices) |-> advices[i].param]

AdviceShown(param) ==
    \E i \in 1..Len(result.advices) : result.advices[i].param = param

Triggered(param) ==
    \E i \in 1..Len(locals.advices) : locals.advices[i].param = param

Rank(param) == IF param = "sleep" THEN 1 ELSE IF param = "steps" THEN 2 ELSE 3

MoodValid == {t \in 1..Len(df) : NotNa(Mood(t))}

\* rows whose mood is at least the mean of the logged moods plus 0.5
GoodPartition ==
    {t \in MoodValid :
        2 * Cardinality(MoodValid) * Mood(t).num
            >= 2 * MoodSum(1, Len(df)) + Cardinality(MoodValid)}

\* rows whose mood is at most the mean of the logged moods minus 0.5
BadPartition ==
    {t \in MoodValid :
        2 * Cardinality(MoodValid) * Mood(t).num
            <= 2 * MoodSum(1, Len(df)) - Cardinality(MoodValid)}

Suppressed ==
    \/ IsNa(call.p_today)
    \/ Cardinality(MoodValid) < 14
    \/ Cardinality(GoodPartition) < 3
    \/ Cardinality(BadPartition) < 3

\* C12: the result is empty when p_today is null, when fewer than 14 rows
\* have a mood, or when the good or the bad partition has fewer than 3 rows;
\* otherwise it is the first at most 2 of the triggered metrics in the order
\* sleep, steps, stress: at most 2 advices, no param twice, and a stress
\* advice only when sleep and steps did not both trigger.
C12_Advice ==
    pc = "returned" =>
        LET shown == result.advices
            all   == locals.advices
        IN  /\ Suppressed => shown = <<>>
            /\ \A i, j \in 1..Len(all) :
                 i < j => Rank(all[i].param) < Rank(all[j].param)
            /\ Len(shown) = Min2(Len(all), 2)
            /\ \A i \in 1..Len(shown) : shown[i] = all[i]
            /\ Len(shown) <= 2
            /\ \A i, j \in 1..Len(shown) : i # j => shown[i].param # shown[j].param
            /\ AdviceShown("stress") => ~(Triggered("sleep") /\ Triggered("steps"))
            /\ (~Suppressed /\ Len(all) > 0) => Len(shown) > 0

\* sleep, steps and stress all triggered and the stress advice was cut;
\* the history holds a day without a mood
C12_Witness ==
    /\ pc = "returned"
    /\ Params(locals.advices) = <<"sleep", "steps", "stress">>
    /\ Params(result.advices) = <<"sleep", "steps">>
    /\ \E t \in 1..Len(df) : IsNa(Mood(t))

MinutesPerDay == 24 * 60

\* C13: whenever a sleep advice is produced, the recommended bedtime plus
\* the recommended sleep duration is 07:00 modulo 24 hours, also when the
\* duration has a non-zero fractional hour.
C13_Bedtime ==
    pc = "returned" =>
        \A i \in 1..Len(result.advices) :
            result.advices[i].param = "sleep" =>
                LET duration == 6 * result.advices[i].value
                    bedtime  == 60 * result.advices[i].detail[1]
                                   + result.advices[i].detail[2]
                IN  (bedtime + duration) % MinutesPerDay = 60 * WAKE_HOUR

StressValid == {t \in MoodValid : NotNa(df[t].stress)}

Unhealthy == {t \in MoodValid : Le(Mood(t), Sub(locals.mean_mood, Val(1)))}

\* the stress samples of the two partitions differ by more than 0.5 in mean
StressGate ==
    LET valid == DropnaMood(df)
        good  == Dropna(Column(GoodDays(valid, locals.mean_mood), "stress"))
        bad   == Dropna(Column(BadDays(valid, locals.mean_mood), "stress"))
    IN  /\ Len(good) >= 3
        /\ Len(bad) >= 3
        /\ Greater(Sub(SeriesMean(bad), SeriesMean(good)), Frac(1, 2))

\* the rounded mean stress of the good days
RecLevel ==
    RoundHalfEven(SeriesMean(
        Dropna(Column(GoodDays(DropnaMood(df), locals.mean_mood), "stress"))))

\* C14: when the bad-day mean stress exceeds the good-day mean by more than
\* 0.5 (3 or more samples each), a stress advice is triggered exactly when
\* the rate of rows with mood <= mean - 1 among the rows with stress at or
\* below the rounded good-day mean is at least 5 percentage points lower
\* than among the rows with stress above it; rows without stress count in
\* neither group.
C14_StressThreshold ==
    (pc = "returned" /\ ~Suppressed /\ StressGate) =>
        LET low  == {t \in StressValid : df[t].stress.num <= RecLevel * df[t].stress.den}
            high == {t \in StressValid : df[t].stress.num > RecLevel * df[t].stress.den}
            l    == Cardinality(low)
            h    == Cardinality(high)
            c    == Cardinality(low \cap Unhealthy)
            a    == Cardinality(high \cap Unhealthy)
        IN  (l > 0 /\ h > 0) =>
                (Triggered("stress") <=> 20 * (a * l - c * h) >= h * l)

-----------------------------------------------------------------------------
(* pipeline.py: _process_user.  A daily document is a row with cells; a    *)
(* cell that is NaN stands for a field that is absent or None.  A written   *)
(* document is a record whose `fields` are the keys it carries.             *)

MIN_DAYS_3D == 60

MIN_UNHEALTHY_3D == 10

RECENT_DAYS == 7

\* round(x, digits) of a float
Pow10(digits) == IF digits = 3 THEN 1000 ELSE 10000

Round(x, digits) ==
    IF IsNa(x) THEN NaN
    ELSE Frac(RoundHalfEven(Frac(x.num * Pow10(digits), x.den)), Pow10(digits))

\* lines 87-103: the documents without a moodScore are skipped
MoodRows(docs) == SelectSeq(docs, LAMBDA d : d.moodScore.ok)

\* int((df["y_today"] == 1).sum())
UnhealthyCount(lbl) == Cardinality({i \in 1..Len(lbl) : lbl[i].y_today = Val(1)})

\* recent_7 = df.tail(7); recent_7["moodScore"].isna().sum() / len(recent_7)
RecentMissingRate(rows) ==
    LET recent_7 == SubSeq(rows, Max2(1, Len(rows) - RECENT_DAYS + 1), Len(rows))
    IN  Frac(Len(SelectSeq(recent_7, LAMBDA r : IsNa(r.moodScore))), Len(recent_7))

\* the frame handed to train_and_predict, reduced to what dropna reads: the
\* target cell of each row and whether its fifteen feature cells are non-null
Table(lbl, feat, target_col) ==
    [i \in 1..Len(lbl) |->
        [target   |-> lbl[i][target_col],
         complete |-> \A c \in 1..Len(FeatureColumns) : feat[i][FeatureColumns[c]].ok]]

NoPrediction ==
    [fields |-> {}, confidence |-> "none", modelVersion |-> "none",
     pToday |-> NaN, p3d |-> NaN, contributions |-> "absent", advices |-> <<>>]

NoStatus ==
    [fields |-> {}, daysCollected |-> 0, daysRequired |-> 0, ready |-> FALSE,
     unhealthyCount |-> 0, recentMissingRate |-> NaN, modelType |-> "none",
     confidenceLevel |-> "none"]

\* _save_prediction: the document set at predictions/{date_key}
save_prediction(p_today, p_3d, confidence, model_version, contributions, advices) ==
    [fields |-> {"confidence", "generatedAt", "modelVersion"}
                  \cup (IF NotNa(p_today) THEN {"pToday"} ELSE {})
                  \cup (IF NotNa(p_3d) THEN {"p3d"} ELSE {})
                  \cup (IF contributions \in {"logistic_top3", "shap_top3"}
                        THEN {"contributions"} ELSE {})
                  \cup (IF advices # <<>> THEN {"advices"} ELSE {}),
     confidence    |-> confidence,
     modelVersion  |-> model_version,
     pToday        |-> Round(p_today, 4),
     p3d           |-> Round(p_3d, 4),
     contributions |-> contributions,
     advices       |-> advices]

\* _update_model_status: the document merged into model_status/current
update_model_status(days_collected, unhealthy_count, recent_missing_rate, model_type, confidence_level, ready) ==
    [fields |-> {"daysCollected", "daysRequired", "ready", "unhealthyCount",
                 "recentMissingRate", "modelType", "confidenceLevel", "updatedAt"},
     daysCollected     |-> days_collected,
     daysRequired      |-> MIN_DAYS_TODAY,
     ready             |-> ready,
     unhealthyCount    |-> unhealthy_count,
     recentMissingRate |-> Round(recent_missing_rate, 3),
     modelType         |-> model_type,
     confidenceLevel   |-> confidence_level]

\* the locals of a call of _process_user that has only read the documents
ProcessLocals(n_docs, n_rows) ==
    [fn |-> "_process_user", n_docs |-> n_docs, days_collected |-> n_rows,
     unhealthy_count |-> 0, recent_missing_rate |-> NaN,
     today |-> NoResult, p3d |-> NaN, tried_3d |-> FALSE,
     confidence_level |-> "none", raised |-> "none"]

ProcessRaised(loc, where) ==
    [outcome |-> "raised", locals |-> [loc EXCEPT !.raised = where],
     prediction |-> NoPrediction, status |-> NoStatus]

\* lines 83-136 of _process_user: the rows read, and for a user with enough
\* rows the sorted frame, its labels and features and what is counted on them
user_frame(docs) ==
    LET rows  == MoodRows(docs)
        frame == SortRows(rows)
        lbl   == Frame(generate_labels(frame))
        feat  == Frame(build_features(frame))
    IN  IF Len(rows) < MIN_DAYS_TODAY
        THEN [n_docs |-> Len(docs), days_collected |-> Len(rows)]
        ELSE [n_docs |-> Len(docs), days_collected |-> Len(frame),
              frame |-> frame,
              unhealthy_count |-> UnhealthyCount(lbl),
              recent_missing_rate |-> RecentMissingRate(frame),
              table_today |-> Frame(Table(lbl, feat, "y_today")),
              table_3d |-> Frame(Table(lbl, feat, "y_3d"))]

\* _process_user for one user, given user_frame of the user's documents.
\* stream is the outcome of reading the documents from Firestore; o and o3
\* are the outcomes of the library calls of the two train_and_predict calls.
\* The value holds the documents the call has set (fields = {} for a
\* document it has not written).
process_user(uf, stream, o, o3) ==
    IF stream = "raises"
    THEN ProcessRaised(ProcessLocals(0, 0), "stream")
    ELSE
    LET loc0 == ProcessLocals(uf.n_docs, uf.days_collected)
    IN  IF uf.days_collected = 0
        THEN [outcome |-> "returned", locals |-> loc0,
              prediction |-> NoPrediction, status |-> NoStatus]
        ELSE IF uf.days_collected < MIN_DAYS_TODAY
        THEN [outcome |-> "returned", locals |-> loc0,
              prediction |-> NoPrediction,
              status |-> update_model_status(uf.days_collected, 0, Val(0),
                                             "logistic", "low", FALSE)]
        ELSE
        LET days_collected  == uf.days_collected
            unhealthy_count == uf.unhealthy_count
            recent_missing_rate == uf.recent_missing_rate
            today == train_and_predict(uf.table_today,
                         days_collected, unhealthy_count,
                         o.lr, o.lr_attr, o.lgb, o.lgb_attr).result
            loc1  == [loc0 EXCEPT !.unhealthy_count = unhealthy_count,
                                  !.recent_missing_rate = recent_missing_rate,
                                  !.today = today]
        IN  IF today.kind = "raised"
            THEN ProcessRaised(loc1, "train_today")
            ELSE
            LET tried_3d  == days_collected >= MIN_DAYS_3D
                             /\ unhealthy_count >= MIN_UNHEALTHY_3D
                result_3d == IF tried_3d
                             THEN train_and_predict(uf.table_3d,
                                      days_collected, unhealthy_count,
                                      o3.lr, o3.lr_attr, o3.lgb, o3.lgb_attr).result
                             ELSE NoResult
                loc2      == [loc1 EXCEPT !.tried_3d = tried_3d]
            IN  IF result_3d.kind = "raised"
                THEN ProcessRaised(loc2, "train_3d")
                ELSE
                LET p3d == IF tried_3d THEN result_3d.probability ELSE NaN
                    confidence_level ==
                        calculate_confidence(days_collected, unhealthy_count,
                                             recent_missing_rate)
                    model_type    == today.model_type
                    model_version == model_type \o "_v1"
                    advices       == generate_advice(uf.frame, today.probability).result
                IN  [outcome |-> "returned",
                     locals |-> [loc2 EXCEPT !.p3d = p3d,
                                     !.confidence_level = confidence_level],
                     prediction |->
                         save_prediction(today.probability, p3d, confidence_level,
                             model_version, today.contributions, advices),
                     status |->
                         update_model_status(days_collected, unhealthy_count,
                             recent_missing_rate, model_type, confidence_level, TRUE)]

-----------------------------------------------------------------------------
(* _process_user applied to the daily documents of one user                *)

MaxHistory == 60

\* the mood of day t in each kind of history
MoodOf(kind, t) ==
    IF kind = "steady" THEN BaseMood
    ELSE IF kind = "troubled"
         THEN (IF t >= MIN_DAYS_TODAY /\ t % 3 = 2 THEN 1 ELSE 4)
    ELSE IF kind = "clustered"
         THEN (IF t >= MIN_DAYS_TODAY /\ t % 10 \in {4, 5} THEN 1 ELSE 4)
    ELSE (IF t < MIN_DAYS_TODAY THEN 5
          ELSE IF t <= 20 THEN 3 ELSE IF t <= 24 THEN 2 ELSE 1)

HistoryKinds == {"steady", "troubled", "clustered", "declining"}

\* n days with a mood (the days of mood 1 logged as sick days), followed by
\* `missing` days on which the user logged everything but the mood
History(kind, n, missing) ==
    [t \in 1..(n + missing) |->
        IF t > n THEN [BaseRow(t) EXCEPT !.moodScore = NaN]
        ELSE IF MoodOf(kind, t) = 1 THEN SickRow(t)
        ELSE [BaseRow(t) EXCEPT !.moodScore = Val(MoodOf(kind, t))]]

HistoryLengths ==
    {0, 1, MIN_DAYS_TODAY - 1, MIN_DAYS_TODAY, 2 * MIN_DAYS_TODAY - 2,
     2 * MIN_DAYS_TODAY - 1, CONFIDENCE_MEDIUM_DAYS}
        \cup (MIN_DAYS_3D..MaxHistory)

\* the outcomes of the library calls of one train_and_predict call; the
\* attribution outcomes do not matter to the 3-day call, whose contributions
\* are not read
TrainOracles ==
    [lr : FitOutcomes, lr_attr : AttrOutcomes, lgb : LgbOutcomes, lgb_attr : AttrOutcomes]

TrainOracles3d ==
    [lr : FitOutcomes, lr_attr : {"ok"}, lgb : LgbOutcomes, lgb_attr : {"ok"}]

StreamOutcomes == {"ok", "raises"}

\* the database after a call for uid that has set the documents of out
Written(d, uid, out) ==
    [d EXCEPT !.predictions[uid] =
                  IF out.prediction.fields # {} THEN out.prediction ELSE @,
              !.model_status[uid] =
                  IF out.status.fields # {} THEN out.status ELSE @]

InitProcess ==
    /\ pc = "input"
    /\ \E kind \in HistoryKinds :
         \E n \in HistoryLengths :
           \E missing \in {0, 3} :
             db = [users |-> {1},
                   daily |-> [u \in {1} |-> History(kind, n, missing)],
                   active |-> [u \in {1} |-> TRUE],
                   predictions |-> [u \in {1} |-> NoPrediction],
                   model_status |-> [u \in {1} |-> NoStatus]]
    /\ batch = NoBatch
    /\ df = <<>>
    /\ dfAlt = <<>>
    /\ labels = <<>>
    /\ features = <<>>
    /\ featuresAlt = <<>>
    /\ call = NoCall
    /\ locals = NoLocals
    /\ result = NoResult

ProcessUser ==
    /\ pc = "input"
    /\ \E uf \in {user_frame(db.daily[1])} :
         \E out \in {process_user(uf, stream, o, o3) :
                        stream \in StreamOutcomes,
                        o \in TrainOracles, o3 \in TrainOracles3d} :
           /\ call' = [fn |-> "_process_user", uid |-> 1]
           /\ locals' = out.locals
           /\ result' = [kind |-> out.outcome]
           /\ db' = Written(db, 1, out)
    /\ pc' = "returned"
    /\ UNCHANGED <<df, dfAlt, labels, features, featuresAlt, batch>>

NextProcess == ProcessUser

SpecProcess == InitProcess /\ [][NextProcess]_vars

-----------------------------------------------------------------------------
(* Properties of _process_user (SpecProcess)                               *)

Completed == pc = "returned" /\ result.kind = "returned"

StatusDoc == db.model_status[1]

PredictionDoc == db.predictions[1]

NoTodayProbability ==
    locals.today.kind = "returned" /\ IsNa(locals.today.probability)

\* C16: every call that completes without raising has written the user's
\* model_status document with a confidence level, whatever the history; and
\* when the today probability is null the prediction document written has
\* no pToday field but has confidence and modelVersion.
C16_StatusWritten ==
    Completed =>
        /\ "confidenceLevel" \in StatusDoc.fields
        /\ StatusDoc.confidenceLevel \in {"low", "medium", "high"}
        /\ NoTodayProbability =>
             /\ "pToday" \notin PredictionDoc.fields
             /\ {"confidence", "modelVersion"} \subseteq PredictionDoc.fields

\* the user's 7 most recent daily records
RecentDocs ==
    LET docs == db.daily[1]
    IN  {t \in 1..Len(docs) : t > Len(docs) - RECENT_DAYS}

MoodAbsent == {t \in RecentDocs : IsNa(db.daily[1][t].moodScore)}

\* C17: the recent_missing_rate written to the status bundle is the fraction
\* of the user's 7 most recent daily records without a mood, and with that
\* fraction at 30% or more the confidence is one tier below the base tier.
C17_RecentMissingRate ==
    (Completed /\ locals.days_collected >= MIN_DAYS_TODAY) =>
        /\ StatusDoc.recentMissingRate
             = Round(Frac(Cardinality(MoodAbsent), Cardinality(RecentDocs)), 3)
        /\ 10 * Cardinality(MoodAbsent) >= 3 * Cardinality(RecentDocs) =>
             Tier(StatusDoc.confidenceLevel)
                = Max2(BaseTier(locals.days_collected, locals.unhealthy_count) - 1, 0)

\* C19: whenever the status is written with ready = true, the same run got a
\* non-null today probability and wrote it as pToday; a user for whom
\* train_and_predict returns a null probability is reported ready = false.
C19_ReadyHasPrediction ==
    (Completed /\ StatusDoc.fields # {}) =>
        /\ StatusDoc.ready =>
             /\ locals.today.kind = "returned"
             /\ NotNa(locals.today.probability)
             /\ "pToday" \in PredictionDoc.fields
             /\ PredictionDoc.pToday = Round(locals.today.probability, 4)
        /\ NoTodayProbability => ~StatusDoc.ready

-----------------------------------------------------------------------------
(* pipeline.py: run_batch                                                  *)

\* users_ref.stream(): the user documents in the order of their ids
UserDocs(d) == [i \in 1..Cardinality(d.users) |-> i]

\* _get_active_users: the users whose most recent daily document exists and
\* has an updatedAt at or after the cutoff (d.active), in the order streamed
get_active_users(d) ==
    SelectSeq(UserDocs(d), LAMBDA uid : Len(d.daily[uid]) > 0 /\ d.active[uid])

\* the class of the exception _process_user raises: a Firestore read fails
\* with a GoogleAPICallError, a fit or a scoring on one class with a ValueError
RaisedClass(where) ==
    IF where = "stream" THEN "GoogleAPICallError" ELSE "ValueError"

\* line 45, except Exception: both classes derive from Exception
Caught(cls) == cls \in {"GoogleAPICallError", "ValueError"}

\* run_batch at line 42: the list obtained, nothing processed yet
BatchStarted(users) ==
    [started |-> TRUE, users |-> users, idx |-> 1, invoked |-> <<>>,
     failed |-> <<>>, completed |-> FALSE]

\* lines 43-46 with the try around the whole loop instead of around one call:
\* the first failure is logged and the loop is left
AfterUserLeavingLoop(b, uid, outcome) ==
    [b EXCEPT !.invoked = Append(@, uid),
              !.failed  = IF outcome = "raised" THEN Append(@, uid) ELSE @,
              !.idx     = IF outcome = "raised" THEN Len(b.users) + 1 ELSE @ + 1]

\* lines 43-46: one iteration of the loop. _process_user was invoked for uid;
\* an Exception it raised is logged and the loop goes on to the next user
AfterUser(b, uid, outcome) ==
    [b EXCEPT !.invoked = Append(@, uid),
              !.failed  = IF outcome = "raised" THEN Append(@, uid) ELSE @,
              !.idx     = @ + 1]

-----------------------------------------------------------------------------
(* run_batch applied to a database of a few users                          *)

MaxUsers == 3

\* what a user of the database has logged, and whether the latest document
\* was updated within the active-user window
UserProfiles ==
    {[docs |-> <<>>, active |-> FALSE],
     [docs |-> History("steady", MIN_DAYS_TODAY - 1, 0), active |-> TRUE],
     [docs |-> History("steady", MIN_DAYS_TODAY, 0), active |-> FALSE],
     [docs |-> History("declining", 2 * MIN_DAYS_TODAY - 1, 0), active |-> TRUE]}

InitBatch ==
    /\ pc = "input"
    /\ \E n \in 1..MaxUsers :
         \E profile \in [1..n -> UserProfiles] :
           db = [users |-> 1..n,
                 daily |-> [u \in 1..n |-> profile[u].docs],
                 active |-> [u \in 1..n |-> profile[u].active],
                 predictions |-> [u \in 1..n |-> NoPrediction],
                 model_status |-> [u \in 1..n |-> NoStatus]]
    /\ batch = NoBatch
    /\ df = <<>>
    /\ dfAlt = <<>>
    /\ labels = <<>>
    /\ features = <<>>
    /\ featuresAlt = <<>>
    /\ call = NoCall
    /\ locals = NoLocals
    /\ result = NoResult

\* lines 35-40: the client is created and the active users are listed; a
\* failure of the listing leaves run_batch before the loop
RunBatch ==
    /\ pc = "input"
    /\ \E listing \in StreamOutcomes :
         IF listing = "raises"
         THEN /\ pc' = "raised"
              /\ batch' = [started |-> TRUE]
              /\ result' = [kind |-> "raised"]
         ELSE /\ pc' = "loop"
              /\ batch' = BatchStarted(get_active_users(db))
              /\ result' = result
    /\ call' = [fn |-> "run_batch"]
    /\ UNCHANGED <<df, dfAlt, labels, features, featuresAlt, locals, db>>

\* lines 42-46: one iteration of the loop; an exception the except clause
\* does not catch leaves run_batch
ProcessNext ==
    /\ pc = "loop"
    /\ batch.idx <= Len(batch.users)
    /\ LET uid == batch.users[batch.idx]
       IN  \E uf \in {user_frame(db.daily[uid])} :
             \E out \in {process_user(uf, stream, o, o3) :
                            stream \in StreamOutcomes,
                            o \in TrainOracles, o3 \in TrainOracles3d} :
               LET escapes == /\ out.outcome = "raised"
                              /\ ~Caught(RaisedClass(out.locals.raised))
               IN  /\ call' = [fn |-> "_process_user", uid |-> uid]
                   /\ locals' = out.locals
                   /\ result' = [kind |-> out.outcome]
                   /\ db' = Written(db, uid, out)
                   /\ batch' = IF escapes
                               THEN [batch EXCEPT !.invoked = Append(@, uid)]
                               ELSE AfterUser(batch, uid, out.outcome)
                   /\ pc' = IF escapes THEN "raised" ELSE "loop"
    /\ UNCHANGED <<df, dfAlt, labels, features, featuresAlt>>

\* line 48: the loop is exhausted and "Batch completed" is logged
BatchCompleted ==
    /\ pc = "loop"
    /\ batch.idx > Len(batch.users)
    /\ batch' = [batch EXCEPT !.completed = TRUE]
    /\ pc' = "returned"
    /\ call' = [fn |-> "run_batch"]
    /\ result' = [kind |-> "returned"]
    /\ UNCHANGED <<df, dfAlt, labels, features, featuresAlt, locals, db>>

NextBatch == RunBatch \/ ProcessNext \/ BatchCompleted

SpecBatch == InitBatch /\ [][NextBatch]_vars

-----------------------------------------------------------------------------
(* Properties of run_batch (SpecBatch)                                     *)

InLoop == pc = "loop"

BatchDone ==
    /\ pc = "returned"
    /\ batch.completed
    /\ batch.invoked = batch.users

\* the users for whom _process_user was invoked are the first idx - 1 users
\* of the list, in list order, each once, failed or not
InvokedInOrder ==
    (pc \in {"loop", "returned"}) =>
        /\ batch.idx \in 1..(Len(batch.users) + 1)
        /\ batch.invoked = SubSeq(batch.users, 1, batch.idx - 1)
        /\ \A i \in 1..Len(batch.failed) :
             \E j \in 1..Len(batch.invoked) : batch.invoked[j] = batch.failed[i]
        /\ (pc = "returned") => BatchDone

\* every step taken inside the loop either processes the next user of the
\* list or logs "Batch completed"
LoopAdvances ==
    InLoop => \/ InLoop' /\ batch'.idx = batch.idx + 1 /\ batch'.users = batch.users
              \/ BatchDone'

\* run_batch is left by an exception only before the list is obtained
NoEscape == (pc = "raised") => batch = [started |-> TRUE]

\* C15: once the list of active users is obtained, _process_user is invoked
\* exactly once for every user of the list, in list order, whether or not an
\* earlier user's processing raised; no exception of a user's processing
\* leaves run_batch, every step of the loop moves one user further down the
\* list, and the run ends at "Batch completed" with every user invoked.
C15_Isolation ==
    /\ [](InvokedInOrder)
    /\ [](NoEscape)
    /\ [][LoopAdvances]_vars

\* a completed batch in which the processing of a user raised and a later
\* user of the list was processed and got its status document
C15_Witness ==
    /\ BatchDone
    /\ \E i \in 1..Len(batch.users) :
         \E j \in (i + 1)..Len(batch.users) :
           /\ \E k \in 1..Len(batch.failed) : batch.failed[k] = batch.users[i]
           /\ \A k \in 1..Len(batch.failed) : batch.failed[k] # batch.users[j]
           /\ db.model_status[batch.users[j]].fields # {}

=============================================================================
